---------------------------- MODULE Spec2Model ----------------------------
(***************************************************************************)
(* A model of three pieces of ARB:                                         *)
(*   - _fmpr_mul_mpn (src/fmpr/mul_mpn.c): multiplication of two limb      *)
(*     mantissas through a scratch buffer taken from the stack, from a     *)
(*     thread-local cache or from the heap;                                *)
(*   - fmprb_const_e (src/fmprb/const_e.c): the cached constant e;         *)
(*   - _fmprb_poly_evaluate_vec_fast_precomp                               *)
(*     (src/fmprb_poly/evaluate_vec_fast.c): multipoint evaluation with a  *)
(*     subproduct tree.                                                    *)
(* Limbs are FLINT_BITS wide and little-endian: word i of the C array is   *)
(* element i + 1 of the sequence.                                          *)
(***************************************************************************)
EXTENDS Integers, Sequences, FiniteSets, TLC

VARIABLES
    __mul_tmp,      \* the thread-local scratch cache: [ptr, mem]
    __mul_alloc,    \* its tracked capacity in words
    cleanup_fns,    \* pending registrations of _mul_tmp_cleanup
    heap_live,      \* heap scratch buffers allocated and not yet freed
    pc,             \* position of the thread inside _fmpr_mul_mpn
    args,           \* arguments of the call in progress (or of the last one)
    frame,          \* locals of _fmpr_mul_mpn: zn, alloc, tmp, ...
    out,            \* z, the returned flag, and how the call ended
    req_max,        \* largest cache-tier size requested since the last cleanup
    cached_prec,    \* fmprb_const_e_cached_prec
    cached_value,   \* fmprb_const_e_cached_value
    cc_hist,        \* radius returned by the calls made so far, per precision
    cc_last,        \* the last call of fmprb_const_e
    ev              \* state of one run of the multipoint evaluator

mulVars == <<__mul_tmp, __mul_alloc, cleanup_fns, heap_live, pc, args, frame, out,
            req_max>>
ccVars == <<cached_prec, cached_value, cc_hist, cc_last>>
evVars == <<ev>>
vars == <<__mul_tmp, __mul_alloc, cleanup_fns, heap_live, pc, args, frame, out,
          req_max, cached_prec, cached_value, cc_hist, cc_last, ev>>

(***************************************************************************)
(* Bounds of the model.                                                    *)
(***************************************************************************)
FLINT_BITS == 2         \* width of a limb, scaled down from 64
MaxXn == 3              \* longest first operand of the exhaustive runs
MaxPrec == 6            \* largest precision asked of fmprb_const_e
MaxLen == 7             \* largest number of evaluation points
MaxPlen == 5            \* largest length of the polynomial

(***************************************************************************)
(* Program constants.                                                      *)
(***************************************************************************)
MUL_STACK_ALLOC == 40
MUL_TLS_ALLOC == 1000

Pow2(k) == 2 ^ k
Base == Pow2(FLINT_BITS)
Max(a, b) == IF a >= b THEN a ELSE b
Min(a, b) == IF a <= b THEN a ELSE b

RECURSIVE FLINT_BIT_COUNT(_)
FLINT_BIT_COUNT(w) == IF w <= 0 THEN 0 ELSE 1 + FLINT_BIT_COUNT(w \div 2)

FLINT_CLOG2(k) == FLINT_BIT_COUNT(k - 1)

(***************************************************************************)
(* GMP's limb primitives.  The carry chain is split in halves so that the  *)
(* depth of the evaluation is logarithmic in the length.                   *)
(***************************************************************************)
RECURSIVE mul_1_range(_, _, _, _, _)
mul_1_range(x, v, lo, hi, cin) ==
    IF lo > hi THEN [w |-> << >>, c |-> cin]
    ELSE IF lo = hi
         THEN LET t == x[lo] * v + cin
              IN  [w |-> <<t % Base>>, c |-> t \div Base]
         ELSE LET mid == (lo + hi) \div 2
                  L == mul_1_range(x, v, lo, mid, cin)
                  R == mul_1_range(x, v, mid + 1, hi, L.c)
              IN  [w |-> L.w \o R.w, c |-> R.c]

\* mpn_mul_1(rp, up, n, v): rp[0..n-1] = low limbs of up * v, returns the carry
mpn_mul_1(x, xn, v) == mul_1_range(x, v, 1, xn, 0)

RECURSIVE addmul_1_range(_, _, _, _, _, _, _)
addmul_1_range(r, x, v, off, lo, hi, cin) ==
    IF lo > hi THEN [w |-> << >>, c |-> cin]
    ELSE IF lo = hi
         THEN LET t == r[off + lo] + x[lo] * v + cin
              IN  [w |-> <<t % Base>>, c |-> t \div Base]
         ELSE LET mid == (lo + hi) \div 2
                  L == addmul_1_range(r, x, v, off, lo, mid, cin)
                  R == addmul_1_range(r, x, v, off, mid + 1, hi, L.c)
              IN  [w |-> L.w \o R.w, c |-> R.c]

RECURSIVE mul_rows(_, _, _, _, _, _)
mul_rows(acc, x, xn, y, yn, j) ==
    IF j > yn THEN acc
    ELSE LET row == addmul_1_range(acc, x, y[j], j - 1, 1, xn, 0)
             nxt == [i \in 1..Len(acc) |->
                       IF i >= j /\ i <= j - 1 + xn THEN row.w[i - (j - 1)]
                       ELSE IF i = j + xn THEN row.c
                       ELSE acc[i]]
         IN  mul_rows(nxt, x, xn, y, yn, j + 1)

\* mpn_mul(rp, up, un, vp, vn), un >= vn >= 1: rp[0..un+vn-1] = up * vp
mpn_mul(x, xn, y, yn) ==
    LET r0 == mpn_mul_1(x, xn, y[1])
        acc == [i \in 1..(xn + yn) |->
                  IF i <= xn THEN r0.w[i] ELSE IF i = xn + 1 THEN r0.c ELSE 0]
    IN  mul_rows(acc, x, xn, y, yn, 2)


(***************************************************************************)
(* Rounding of the product, _fmpr_set_round_mpn(&shift, man, x, xn,        *)
(* negative, prec, rnd): the words x[0..xn-1] with x[xn-1] nonzero are     *)
(* rounded to prec significant bits; shift is the number of bits           *)
(* discarded, exact says that the discarded bits were all zero.            *)
(***************************************************************************)
RndModes == {"down", "up", "floor", "ceil", "near"}

BitAt(t, k) == (t[(k \div FLINT_BITS) + 1] \div Pow2(k % FLINT_BITS)) % 2

RECURSIVE BitsFrom(_, _, _)
BitsFrom(t, k, n) ==
    IF n = 0 THEN 0 ELSE BitAt(t, k) + 2 * BitsFrom(t, k + 1, n - 1)

\* some bit below bit k is set
AnyBitBelow(t, k) ==
    \/ \E i \in 1..(k \div FLINT_BITS) : t[i] # 0
    \/ /\ k % FLINT_BITS > 0
       /\ t[(k \div FLINT_BITS) + 1] % Pow2(k % FLINT_BITS) # 0

RoundsUp(rnd, negative, q, half, sticky) ==
    CASE rnd = "down"  -> FALSE
      [] rnd = "up"    -> half \/ sticky
      [] rnd = "floor" -> negative /\ (half \/ sticky)
      [] rnd = "ceil"  -> ~negative /\ (half \/ sticky)
      [] rnd = "near"  -> half /\ (sticky \/ q % 2 = 1)

_fmpr_set_round_mpn(t, xn, negative, prec, rnd, u) ==
    IF xn < 1 \/ xn > Len(t) \/ prec < 1 \/ rnd \notin RndModes
    THEN [man |-> u, shift |-> 0, exact |-> FALSE, read |-> {}]
    ELSE IF t[xn] = 0
    THEN [man |-> u, shift |-> 0, exact |-> FALSE, read |-> 0..(xn - 1)]
    ELSE
    LET bits == (xn - 1) * FLINT_BITS + FLINT_BIT_COUNT(t[xn])
    IN  IF bits <= prec
        THEN [man |-> BitsFrom(t, 0, bits), shift |-> 0, exact |-> TRUE,
              read |-> 0..(xn - 1)]
        ELSE LET shift == bits - prec
                 q == BitsFrom(t, shift, prec)
                 half == BitAt(t, shift - 1) = 1
                 sticky == AnyBitBelow(t, shift - 1)
                 r == IF RoundsUp(rnd, negative, q, half, sticky) THEN q + 1 ELSE q
             IN  [man |-> IF r = Pow2(prec) THEN Pow2(prec - 1) ELSE r,
                  shift |-> IF r = Pow2(prec) THEN shift + 1 ELSE shift,
                  exact |-> ~(half \/ sticky),
                  read |-> 0..(xn - 1)]

(***************************************************************************)
(* Memory.  A block that was never written holds garbage: every word of   *)
(* it is the word g the allocation happens to find there.                  *)
(***************************************************************************)
Garbage == {0, Base - 1}

Fill(n, g) == [i \in 1..n |-> g]

NullPtr == [ptr |-> "NULL", mem |-> << >>]

\* flint_realloc(p, n words): the old contents are kept up to the old size
flint_realloc(p, n, g) ==
    [ptr |-> "live",
     mem |-> [i \in 1..n |->
                IF p.ptr = "live" /\ i <= Len(p.mem) THEN p.mem[i] ELSE g]]

\* words w written to t[0 .. Len(w) - 1]
WriteWords(t, w) == [i \in 1..Len(t) |-> IF i <= Len(w) THEN w[i] ELSE t[i]]

\* t[k] = v
WriteWord(t, k, v) == [i \in 1..Len(t) |-> IF i = k + 1 THEN v ELSE t[i]]

(***************************************************************************)
(* MUL_TMP_ALLOC and MUL_TMP_FREE.                                         *)
(***************************************************************************)
TierOf(alloc) ==
    IF alloc <= MUL_STACK_ALLOC THEN "stack"
    ELSE IF alloc <= MUL_TLS_ALLOC THEN "cache"
    ELSE "heap"

\* faulty variant: the cache is resized to every request of a different size
CacheMustGrow_resize(cap, alloc) == cap # alloc

\* if (__mul_alloc < alloc)
CacheMustGrow(cap, alloc) == cap < alloc

\* faulty variant: the callback is registered whenever the cache grows
RegistersCleanup_always(cap) == TRUE

\* if (__mul_alloc == 0) flint_register_cleanup_function(_mul_tmp_cleanup)
RegistersCleanup(cap) == cap = 0

\* The effect of MUL_TMP_ALLOC on the cache, the cleanup list and the heap,
\* and the buffer tmp points to afterwards.
MUL_TMP_ALLOC(alloc, g, tmp0, cap0) ==
    IF TierOf(alloc) = "stack"
    THEN [tier |-> "stack", buf |-> Fill(MUL_STACK_ALLOC, g),
          cache |-> tmp0, cap |-> cap0, reg |-> 0, heap |-> 0]
    ELSE IF TierOf(alloc) = "cache"
    THEN IF CacheMustGrow(cap0, alloc)
         THEN [tier |-> "cache", buf |-> << >>,
               cache |-> flint_realloc(tmp0, alloc, g), cap |-> alloc,
               reg |-> IF RegistersCleanup(cap0) THEN 1 ELSE 0, heap |-> 0]
         ELSE [tier |-> "cache", buf |-> << >>,
               cache |-> tmp0, cap |-> cap0, reg |-> 0, heap |-> 0]
    ELSE [tier |-> "heap", buf |-> Fill(alloc, g),
          cache |-> tmp0, cap |-> cap0, reg |-> 0, heap |-> 1]

\* faulty variant: the release tests the wrong threshold
MUL_TMP_FREE_stack(alloc) == alloc > MUL_STACK_ALLOC

\* if (alloc > MUL_TLS_ALLOC) flint_free(tmp);
MUL_TMP_FREE(alloc) == alloc > MUL_TLS_ALLOC

(***************************************************************************)
(* The product step of _fmpr_mul_mpn.  tmp is the scratch buffer, zn the   *)
(* length xn + yn.  GMP requires xn >= 1 for mpn_mul_1 and xn >= yn >= 1   *)
(* for mpn_mul; outside of that the words written, and the word read past  *)
(* the buffer, are whatever word u the build produces.                     *)
(***************************************************************************)
\* faulty variant: a zero top word is kept
StripTop_never(zn, top) == zn

\* zn = zn - (top == 0)
StripTop(zn, top) == IF top = 0 THEN zn - 1 ELSE zn

\* faulty variant: the carry is not stored
StoreCarry_skip(tmp, w, zn, cy) ==
    [tmp |-> WriteWords(tmp, w), written |-> 0..(Len(w) - 1)]

\* mpn_mul_1 wrote the words w to tmp[0 ..]; then tmp[zn - 1] = cy
StoreCarry(tmp, w, zn, cy) ==
    [tmp |-> WriteWord(WriteWords(tmp, w), zn - 1, cy),
     written |-> (0..(Len(w) - 1)) \cup {zn - 1}]

Mul1Path(tmp, a, zn, u) ==
    IF a.xn >= 1
    THEN LET r == mpn_mul_1(a.xman, a.xn, a.yman[1])
             st == StoreCarry(tmp, r.w, zn, r.c)
         IN  [tmp |-> st.tmp, zn |-> StripTop(zn, r.c), written |-> st.written]
    ELSE LET st == StoreCarry(tmp, << >>, zn, u)
         IN  [tmp |-> st.tmp, zn |-> StripTop(zn, u), written |-> st.written]

MulGeneralPath(tmp, a, zn, u) ==
    IF a.xn >= a.yn /\ a.yn >= 1
    THEN LET t1 == WriteWords(tmp, mpn_mul(a.xman, a.xn, a.yman, a.yn))
         IN  [tmp |-> t1, zn |-> StripTop(zn, t1[zn]), written |-> 0..(zn - 1)]
    ELSE [tmp |-> WriteWords(tmp, Fill(zn, u)), zn |-> StripTop(zn, u),
          written |-> 0..(zn - 1)]

ProductStep(tmp, a, zn, u) ==
    IF a.yn = 1 THEN Mul1Path(tmp, a, zn, u) ELSE MulGeneralPath(tmp, a, zn, u)

\* faulty variant: invalid arguments are rejected on entry
Rejects_invalid(a) ==
    ~(a.xn >= 1 /\ a.yn >= 1 /\ a.prec >= 1 /\ a.rnd \in RndModes)

\* _fmpr_mul_mpn has no check of its arguments
Rejects(a) == FALSE

(***************************************************************************)
(* _fmpr_mul_mpn as three steps of the calling thread: entry with          *)
(* MUL_TMP_ALLOC, the product step, and rounding with MUL_TMP_FREE and     *)
(* the return.                                                             *)
(***************************************************************************)
NoArgs == [xman |-> << >>, xn |-> 0, xexp |-> 0, yman |-> << >>, yn |-> 0,
           yexp |-> 0, negative |-> FALSE, prec |-> 0, rnd |-> "none"]

\* fmpr_init(z): zero
FmprZero == [neg |-> FALSE, man |-> 0, exp |-> 0]

NoOut == [status |-> "none", z |-> FmprZero, exact |-> FALSE]

NoFrame == [zn |-> 0, alloc |-> 0, tier |-> "none", buf |-> << >>,
            written |-> {}, read |-> {}, cap0 |-> 0, reg |-> 0,
            freed |-> "none"]

\* the words tmp points to
Tmp == IF frame.tier = "cache" THEN __mul_tmp.mem ELSE frame.buf

\* what the caller owes GMP and the rounding routine
ValidLengths(a) == a.xn >= a.yn /\ a.yn >= 1
ValidArgs(a) == ValidLengths(a) /\ a.prec >= 1 /\ a.rnd \in RndModes

\* the words an undefined operation may produce
Undefined(ok) == IF ok THEN {0} ELSE Garbage

Call(Inputs) ==
    /\ pc = "idle"
    /\ \E a \in Inputs : args' = a
    /\ pc' = "enter"
    /\ out' = NoOut
    /\ frame' = NoFrame
    /\ UNCHANGED <<__mul_tmp, __mul_alloc, cleanup_fns, heap_live, req_max>>
    /\ UNCHANGED <<ccVars, evVars>>

Acquire ==
    /\ pc = "enter"
    /\ IF Rejects(args)
       THEN /\ pc' = "idle"
            /\ out' = [out EXCEPT !.status = "rejected"]
            /\ UNCHANGED <<__mul_tmp, __mul_alloc, cleanup_fns, heap_live,
                           frame, req_max>>
       ELSE \E g \in Garbage :
              LET alloc == args.xn + args.yn
                  m == MUL_TMP_ALLOC(alloc, g, __mul_tmp, __mul_alloc)
              IN  /\ __mul_tmp' = m.cache
                  /\ __mul_alloc' = m.cap
                  /\ cleanup_fns' = cleanup_fns + m.reg
                  /\ heap_live' = heap_live + m.heap
                  /\ frame' = [zn |-> alloc, alloc |-> alloc, tier |-> m.tier,
                               buf |-> m.buf, written |-> {}, read |-> {},
                               cap0 |-> __mul_alloc, reg |-> m.reg,
                               freed |-> "none"]
                  /\ req_max' = IF alloc > 40 /\ alloc <= 1000
                                THEN Max(req_max, alloc) ELSE req_max
                  /\ pc' = "product"
                  /\ out' = out
    /\ UNCHANGED <<args, ccVars, evVars>>

Multiply ==
    /\ pc = "product"
    /\ \E u \in Undefined(ValidLengths(args)) :
         LET r == ProductStep(Tmp, args, frame.zn, u)
         IN  /\ IF frame.tier = "cache"
                THEN /\ __mul_tmp' = [__mul_tmp EXCEPT !.mem = r.tmp]
                     /\ frame' = [frame EXCEPT !.zn = r.zn,
                                               !.written = r.written]
                ELSE /\ __mul_tmp' = __mul_tmp
                     /\ frame' = [frame EXCEPT !.zn = r.zn, !.buf = r.tmp,
                                               !.written = r.written]
    /\ pc' = "round"
    /\ UNCHANGED <<__mul_alloc, cleanup_fns, heap_live, args, out, req_max>>
    /\ UNCHANGED <<ccVars, evVars>>

\* flint_free(tmp) under MUL_TMP_FREE
ReleaseTmp ==
    IF MUL_TMP_FREE(frame.alloc)
    THEN /\ heap_live' = IF frame.tier = "heap" THEN heap_live - 1 ELSE heap_live
         /\ __mul_tmp' = IF frame.tier = "cache"
                         THEN [__mul_tmp EXCEPT !.ptr = "freed"] ELSE __mul_tmp
    ELSE UNCHANGED <<heap_live, __mul_tmp>>

RoundRelease ==
    /\ pc = "round"
    /\ \E u \in Undefined(ValidArgs(args) /\ frame.zn >= 1) :
         LET r == _fmpr_set_round_mpn(Tmp, frame.zn, args.negative, args.prec,
                                      args.rnd, u)
         IN  /\ out' = [status |-> "returned",
                        z |-> [neg |-> args.negative, man |-> r.man,
                               exp |-> args.xexp + args.yexp + r.shift],
                        exact |-> r.exact]
             /\ frame' = [frame EXCEPT
                            !.read = r.read, !.buf = << >>,
                            !.freed = IF MUL_TMP_FREE(frame.alloc)
                                      THEN frame.tier ELSE "none"]
    /\ ReleaseTmp
    /\ pc' = "idle"
    /\ UNCHANGED <<__mul_alloc, cleanup_fns, args, req_max>>
    /\ UNCHANGED <<ccVars, evVars>>

\* void _mul_tmp_cleanup(void)
_mul_tmp_cleanup ==
    /\ __mul_tmp' = NullPtr
    /\ __mul_alloc' = 0

\* flint_cleanup(): every registered function is run and the list is emptied
Cleanup ==
    /\ pc = "idle"
    /\ cleanup_fns > 0
    /\ _mul_tmp_cleanup
    /\ cleanup_fns' = 0
    /\ req_max' = 0
    /\ UNCHANGED <<heap_live, pc, args, frame, out>>
    /\ UNCHANGED <<ccVars, evVars>>

(***************************************************************************)
(* Inputs.                                                                 *)
(***************************************************************************)
\* a mantissa of n words: top word top, every other word low
Man(n, top, low) == [i \in 1..n |-> IF i = n THEN top ELSE low]

TopPicks == {1, Base \div 2, Base - 1}
WordPicks == {0, 1, Base - 1}

RECURSIVE Mantissas(_)
Mantissas(n) ==
    IF n = 1 THEN {<<t>> : t \in TopPicks}
    ELSE {<<w>> \o m : w \in WordPicks, m \in Mantissas(n - 1)}

RoundPicks == {<<"near", FALSE>>, <<"down", TRUE>>, <<"up", FALSE>>,
               <<"floor", TRUE>>, <<"ceil", FALSE>>}

MkArgs(x, y, xe, ye, neg, prec, rnd) ==
    [xman |-> x, xn |-> Len(x), xexp |-> xe, yman |-> y, yn |-> Len(y),
     yexp |-> ye, negative |-> neg, prec |-> prec, rnd |-> rnd]

\* every pair of short mantissas, xn >= yn >= 1
SmallInputs ==
    {MkArgs(x, y, -2, 5, rn[2], prec, rn[1]) :
        x \in UNION {Mantissas(n) : n \in 1..MaxXn},
        y \in UNION {Mantissas(n) : n \in 1..2},
        prec \in {2, FLINT_BITS + 1},
        rn \in RoundPicks}

ShortInputs == {a \in SmallInputs : a.xn >= a.yn}

\* calls that break the contract of multiply
InvalidInputs ==
    { [NoArgs EXCEPT !.xn = 0, !.yman = <<1>>, !.yn = 1, !.prec = 2, !.rnd = "near"],
      [NoArgs EXCEPT !.xman = <<1>>, !.xn = 1, !.prec = 2, !.rnd = "near"],
      [NoArgs EXCEPT !.prec = 2, !.rnd = "near"],
      MkArgs(<<Base - 1, 1>>, <<Base - 1>>, 0, 0, FALSE, -1, "near"),
      MkArgs(<<Base - 1, 1>>, <<Base - 1>>, 0, 0, FALSE, 2, "bogus") }

\* operand lengths on both sides of the two thresholds
TierShapes ==
    { <<MUL_STACK_ALLOC - 1, 1>>, <<MUL_STACK_ALLOC, 1>>, <<MUL_STACK_ALLOC, 2>>,
      <<MUL_TLS_ALLOC - 1, 1>>, <<MUL_TLS_ALLOC - 1, 2>>, <<MUL_TLS_ALLOC, 1>> }

TierInputs ==
    {MkArgs(Man(s[1], t[1], Base - 1), Man(s[2], t[2], Base - 1), 0, -3,
            rn[2], 3, rn[1]) :
        s \in TierShapes,
        t \in {<<1, 1>>, <<Base - 1, Base - 1>>},
        rn \in {<<"near", FALSE>>, <<"floor", TRUE>>}}

(***************************************************************************)
(* Specifications.                                                         *)
(***************************************************************************)
IdleOthers ==
    /\ cached_prec = 0
    /\ cached_value = 0
    /\ cc_hist = << >>
    /\ cc_last = << >>
    /\ ev = 0

MulInitCommon ==
    /\ __mul_tmp = NullPtr
    /\ __mul_alloc = 0
    /\ cleanup_fns = 0
    /\ heap_live = 0
    /\ req_max = 0
    /\ out = NoOut
    /\ frame = NoFrame

\* one call of _fmpr_mul_mpn on each short input
MulInit ==
    /\ MulInitCommon
    /\ pc = "enter"
    /\ args \in ShortInputs \cup InvalidInputs
    /\ IdleOthers

MulNext == Acquire \/ Multiply \/ RoundRelease

SpecMul == MulInit /\ [][MulNext]_vars

\* any sequence of calls around the thresholds, and cleanup runs
TierInit ==
    /\ MulInitCommon
    /\ pc = "idle"
    /\ args = NoArgs
    /\ IdleOthers

TierNext == Call(TierInputs) \/ Acquire \/ Multiply \/ RoundRelease \/ Cleanup

SpecTier == TierInit /\ [][TierNext]_vars

(***************************************************************************)
(* Properties of the scratch tiers (SpecTier).                             *)
(***************************************************************************)
InCall == pc \in {"product", "round"}
Returned == pc = "idle" /\ out.status = "returned"
Size == args.xn + args.yn

\* C2: the scratch buffer comes from the tier the size xn + yn selects
\* (stack up to 40 words, cache up to 1000, heap above, so that 10, 500 and
\* 5000 words use the stack, the cache and the heap); the heap buffer has
\* exactly that size; the release frees the buffer if and only if it came from
\* the heap, so that no heap buffer is outstanding when a call has returned
\* and the cache is never freed by a call.
C2_TierBySize ==
    /\ TierOf(10) = "stack" /\ TierOf(500) = "cache" /\ TierOf(5000) = "heap"
    /\ (InCall \/ Returned) =>
          /\ frame.alloc = Size
          /\ frame.tier = "stack" <=> Size <= 40
          /\ frame.tier = "cache" <=> (40 < Size /\ Size <= 1000)
          /\ frame.tier = "heap" <=> Size > 1000
    /\ InCall =>
          /\ frame.tier = "stack" => Len(frame.buf) = 40 /\ heap_live = 0
          /\ frame.tier = "cache" => /\ Tmp = __mul_tmp.mem
                                     /\ Len(__mul_tmp.mem) >= Size
                                     /\ heap_live = 0
          /\ frame.tier = "heap" => Len(frame.buf) = Size /\ heap_live = 1
    /\ Returned => (frame.freed = IF frame.tier = "heap" THEN "heap" ELSE "none")
    /\ pc = "idle" => heap_live = 0
    /\ __mul_tmp.ptr # "freed"
    /\ __mul_alloc > 0 => __mul_tmp.ptr = "live"

\* a heap-tier call has returned while the cache holds its largest size
C2_Witness ==
    /\ Returned
    /\ frame.tier = "heap"
    /\ frame.freed = "heap"
    /\ __mul_alloc = 1000
    /\ __mul_tmp.ptr = "live"

\* the product, stripped of a zero top word and rounded, computed without
\* any scratch buffer
RefResult(a) ==
    LET p == mpn_mul(a.xman, a.xn, a.yman, a.yn)
        n == IF p[a.xn + a.yn] = 0 THEN a.xn + a.yn - 1 ELSE a.xn + a.yn
        r == _fmpr_set_round_mpn(p, n, a.negative, a.prec, a.rnd, 0)
    IN  [status |-> "returned",
         z |-> [neg |-> a.negative, man |-> r.man,
                exp |-> a.xexp + a.yexp + r.shift],
         exact |-> r.exact]

\* C3: the result of a call (mantissa, exponent, flag) is a function of its
\* arguments alone: it is the rounded product whatever tier served the call,
\* whatever the capacity of the cache and whatever words earlier calls or the
\* allocator left in the buffer, and every scratch word the call read had
\* been written by it.
C3_ResultIndependentOfScratch ==
    Returned =>
        /\ out = RefResult(args)
        /\ frame.read = 0..(frame.zn - 1)
        /\ frame.read \subseteq frame.written

\* a call served by a cache that earlier, larger calls had filled, and whose
\* top product word was zero
C3_Witness ==
    /\ Returned
    /\ frame.tier = "cache"
    /\ frame.cap0 > frame.alloc
    /\ frame.zn = frame.alloc - 1
    /\ \E i \in 1..Len(__mul_tmp.mem) : __mul_tmp.mem[i] # 0

C4_Step ==
    \/ Cleanup
    \/ /\ __mul_alloc' >= __mul_alloc
       /\ pc = "enter" =>
             IF 40 < Size /\ Size <= 1000
             THEN __mul_alloc' = (IF Size > __mul_alloc THEN Size ELSE __mul_alloc)
             ELSE __mul_alloc' = __mul_alloc /\ __mul_tmp' = __mul_tmp
       /\ pc # "enter" => __mul_alloc' = __mul_alloc

\* C4: without a cleanup run the capacity of the cache never decreases; a
\* cache-tier request larger than the capacity sets it to that size, any other
\* cache-tier request leaves it unchanged, stack-tier and heap-tier requests
\* leave pointer and capacity unchanged; the capacity is the largest cache-tier
\* size requested since the last cleanup and never exceeds 1000.
C4_CapacityMonotone ==
    /\ [](__mul_alloc = req_max /\ __mul_alloc <= 1000)
    /\ [][C4_Step]_vars

\* a cache-tier request smaller than the capacity has left it unchanged
C4_Witness ==
    /\ Returned
    /\ frame.tier = "cache"
    /\ frame.cap0 = 1000
    /\ frame.alloc = 41
    /\ __mul_alloc = 1000

C8_Step ==
    /\ cleanup_fns' > cleanup_fns =>
          /\ pc = "enter"
          /\ 40 < Size /\ Size <= 1000
          /\ __mul_alloc = 0
          /\ cleanup_fns' = cleanup_fns + 1
    /\ (pc = "enter" /\ 40 < Size /\ Size <= 1000 /\ __mul_alloc = 0) =>
          cleanup_fns' = cleanup_fns + 1
    /\ Cleanup => __mul_tmp'.ptr = "NULL" /\ __mul_alloc' = 0 /\ cleanup_fns' = 0

\* C8: the cleanup callback is registered only by a cache-tier request that
\* finds the capacity 0, and by every such request; a cleanup run leaves the
\* pointer NULL and the capacity 0; so whenever the capacity is positive
\* exactly one registration is pending.
C8_CleanupRegisteredOnce ==
    /\ [](IF __mul_alloc > 0 THEN cleanup_fns = 1 ELSE cleanup_fns = 0)
    /\ [][C8_Step]_vars

\* the cache is being grown by a request that found it in use, which
\* registers nothing: the registration of the first use is still the only one
C8_Witness ==
    /\ InCall
    /\ frame.tier = "cache"
    /\ frame.cap0 > 0
    /\ __mul_alloc > frame.cap0
    /\ frame.reg = 0
    /\ cleanup_fns = 1

(***************************************************************************)
(* Properties of one call (SpecMul).                                       *)
(***************************************************************************)
RECURSIVE Value(_, _)
\* the integer held by the words t[0 .. n - 1]
Value(t, n) == IF n <= 0 THEN 0 ELSE t[1] + Base * Value(Tail(t), n - 1)

NormalizedArgs(a) ==
    /\ ValidLengths(a)
    /\ a.xman[a.xn] # 0
    /\ a.yman[a.yn] # 0

\* C7: after the product step the words tmp[0 .. zn - 1] are the integer
\* product of the two mantissas; zn is xn + yn when the top word of the full
\* product is nonzero and xn + yn - 1 when it is zero, so tmp[zn - 1] is
\* nonzero; the single-word path (yn = 1) leaves the words and the zn the
\* general path would.
C7_ProductWords ==
    (pc = "round" /\ NormalizedArgs(args)) =>
        LET full == args.xn + args.yn
            P == Value(args.xman, args.xn) * Value(args.yman, args.yn)
            zn == frame.zn
            gp == MulGeneralPath(Fill(full, 0), args, full, 0)
        IN  /\ zn = (IF P \div (Base ^ (full - 1)) # 0 THEN full ELSE full - 1)
            /\ Value(Tmp, zn) = P
            /\ Tmp[zn] # 0
            /\ args.yn = 1 =>
                  /\ gp.zn = zn
                  /\ SubSeq(gp.tmp, 1, zn) = SubSeq(Tmp, 1, zn)

\* the single-word path found a zero carry on a mantissa of several words
C7_Witness ==
    /\ pc = "round"
    /\ NormalizedArgs(args)
    /\ args.yn = 1
    /\ args.xn >= 2
    /\ frame.zn = args.xn

InvalidInput(a) ==
    a.xn = 0 \/ a.yn = 0 \/ a.prec < 0 \/ a.rnd \notin RndModes

\* C6 as stated: a call with a zero-length mantissa, a negative precision or
\* a malformed rounding mode is rejected at the boundary: no scratch word is
\* read or written and z is not modified.
C6_InvalidInputRejected ==
    (InvalidInput(args) /\ pc # "enter") =>
        /\ pc = "idle"
        /\ out.status = "rejected"
        /\ out.z = FmprZero
        /\ frame.written = {}
        /\ frame.read = {}

\* C6 as amended: _fmpr_mul_mpn does not examine its arguments.  No call is
\* rejected; a call with invalid input acquires xn + yn scratch words from the
\* tier that size selects, runs the product step, which writes the scratch
\* buffer (all xn + yn words when only the precision or the rounding mode is
\* invalid), and returns like any other call.
C6_NoValidation ==
    /\ out.status # "rejected"
    /\ pc = "idle" => out.status = "returned"
    /\ (InvalidInput(args) /\ pc # "enter") =>
          /\ frame.alloc = Size
          /\ frame.tier = (IF Size <= 40 THEN "stack"
                           ELSE IF Size <= 1000 THEN "cache" ELSE "heap")
    /\ (InvalidInput(args) /\ pc \in {"round", "idle"}) =>
          /\ Size >= 1 => frame.written # {}
          /\ ValidLengths(args) => frame.written = 0..(Size - 1)

\* a call with a negative precision has returned after writing its scratch
C6_Witness ==
    /\ Returned
    /\ args.prec < 0
    /\ frame.written = 0..(Size - 1)
    /\ frame.tier = "stack"

(***************************************************************************)
(* The cached constant e.  fmprb_const_e_eval is the function of           *)
(* src/fmprb/const_e.c; fmprb_const_e is generated by DEF_CACHED_CONSTANT, *)
(* whose text is not part of the sources at hand: it follows the protocol  *)
(* of the cached constants (return the entry when its precision is at      *)
(* least the one asked for, otherwise compute, store and return).          *)
(* A ball is [mid, exp, rad]: the midpoint mid * 2^exp and the radius      *)
(* 2^rad.                                                                  *)
(***************************************************************************)
\* the first wp bits of e = 10.1011011111100001...b
EBits(wp) == 178145 \div Pow2(18 - wp)

\* fmprb_hypgeom_infsum and fmprb_div at precision wp: e to wp bits, within
\* one unit of the last bit
SumSeries(wp) == [mid |-> EBits(wp), exp |-> 2 - wp, rad |-> 2 - wp]

\* void fmprb_const_e_eval(fmprb_t s, long prec)
fmprb_const_e_eval(prec) == SumSeries(prec + FLINT_CLOG2(prec))

NoBall == [mid |-> 0, exp |-> 0, rad |-> 0]

\* faulty variant: an entry is adequate only for the precision it was computed for
CacheAdequate_exact(have, prec) == have = prec

\* a cached entry exists with cached.precision_bits >= precision_bits
CacheAdequate(have, prec) == have >= prec

\* the least radius the earlier calls returned, per precision asked ({}: no
\* call yet)
CcHistInit == [p \in 1..MaxPrec |-> {}]

CcNoCall == [prec |-> 0, recomputed |-> FALSE, x |-> NoBall,
             earlier |-> CcHistInit, exited |-> FALSE]

\* void fmprb_const_e(fmprb_t x, long prec)
fmprb_const_e(prec) ==
    /\ ~cc_last.exited
    /\ LET hit == CacheAdequate(cached_prec, prec)
           val == IF hit THEN cached_value ELSE fmprb_const_e_eval(prec)
       IN  /\ cached_value' = val
           /\ cached_prec' = IF hit THEN cached_prec ELSE prec
           /\ cc_last' = [prec |-> prec, recomputed |-> ~hit, x |-> val,
                          earlier |-> cc_hist, exited |-> FALSE]
           /\ cc_hist' = [cc_hist EXCEPT ![prec] =
                             {r \in @ \cup {val.rad} :
                                 \A q \in @ \cup {val.rad} : r <= q}]
    /\ UNCHANGED <<mulVars, evVars>>

\* process exit: the entry is torn down
ConstExit ==
    /\ ~cc_last.exited
    /\ cached_prec > 0
    /\ cached_prec' = 0
    /\ cached_value' = NoBall
    /\ cc_last' = [CcNoCall EXCEPT !.exited = TRUE]
    /\ UNCHANGED <<cc_hist, mulVars, evVars>>

IdleMul ==
    /\ MulInitCommon
    /\ pc = "idle"
    /\ args = NoArgs

ConstInit ==
    /\ cached_prec = 0
    /\ cached_value = NoBall
    /\ cc_hist = CcHistInit
    /\ cc_last = CcNoCall
    /\ IdleMul
    /\ ev = 0

ConstNext == (\E prec \in 1..MaxPrec : fmprb_const_e(prec)) \/ ConstExit

SpecConst == ConstInit /\ [][ConstNext]_vars

\* C5: a call at precision p2 made after a call at precision p1 >= p2 finds an
\* adequate entry, recomputes nothing and returns a ball whose radius is at most
\* the radius the earlier call returned.
C5_CachedNoLoss ==
    cc_last.prec > 0 =>
        \A p1 \in cc_last.prec..MaxPrec :
            \A r1 \in cc_last.earlier[p1] :
                /\ ~cc_last.recomputed
                /\ cc_last.x.rad <= r1

\* a call at a lower precision than an earlier one, served from the cache
C5_Witness ==
    /\ cc_last.prec > 0
    /\ \E p1 \in (cc_last.prec + 1)..MaxPrec : cc_last.earlier[p1] # {}
    /\ cached_prec > cc_last.prec
    /\ cc_last.x = cached_value

(***************************************************************************)
(* Fast multipoint evaluation.  Arithmetic is exact: a ball is its         *)
(* midpoint, an integer, with radius zero.  A polynomial is the sequence   *)
(* of its coefficients, constant term first; a vector of the C code that   *)
(* starts at offset off is Slice(v, off, n).                               *)
(***************************************************************************)
Coefs == {-1, 0, 2}

\* n evaluation points: all different while n <= 5, all equal, alternating
PointSeqs(n) ==
    { [i \in 1..n |-> ((2 * i) % 5) - 2],
      [i \in 1..n |-> 2],
      [i \in 1..n |-> IF i % 2 = 1 THEN -1 ELSE 2] }

RECURSIVE SeqsOf(_, _)
SeqsOf(S, n) == IF n = 0 THEN {<< >>} ELSE {<<x>> \o q : x \in S, q \in SeqsOf(S, n - 1)}

\* the n words of v from offset off; a word outside of v reads as 0
Slice(v, off, n) ==
    [i \in 1..n |-> IF off + i >= 1 /\ off + i <= Len(v) THEN v[off + i] ELSE 0]

RECURSIVE Concat(_)
Concat(ss) == IF ss = << >> THEN << >> ELSE Head(ss) \o Concat(Tail(ss))

\* _fmprb_poly_mul_monic: the product of two polynomials
PolyMul(a, b) ==
    [k \in 1..(Len(a) + Len(b) - 1) |->
        LET idx == {i \in 1..Len(a) : k - i + 1 >= 1 /\ k - i + 1 <= Len(b)}
            term[i \in 0..Len(a)] ==
                IF i = 0 THEN 0
                ELSE term[i - 1] + (IF i \in idx THEN a[i] * b[k - i + 1] ELSE 0)
        IN  term[Len(a)]]

RECURSIVE RootsPoly(_, _, _)
\* (x - xs[lo]) ... (x - xs[hi])
RootsPoly(xs, lo, hi) ==
    IF lo > hi THEN <<1>>
    ELSE PolyMul(RootsPoly(xs, lo, hi - 1), <<0 - xs[hi], 1>>)

\* _fmprb_poly_tree_build: level h holds, one after the other, the monic
\* polynomials of the blocks of 2^h points (the last block may be shorter);
\* the levels are 0 .. FLINT_CLOG2(len) - 1
TreeLevel(xs, len, h) ==
    LET pow == Pow2(h)
        nodes == (len + pow - 1) \div pow
    IN  Concat([k \in 1..nodes |->
                  RootsPoly(xs, (k - 1) * pow + 1, Min(k * pow, len))])

_fmprb_poly_tree_build(xs, len) ==
    [h \in 0..Max(FLINT_CLOG2(len) - 1, 0) |-> TreeLevel(xs, len, h)]

RECURSIVE Horner(_, _, _)
\* _fmprb_poly_evaluate(y, poly, plen, x)
Horner(poly, plen, x) ==
    IF plen = 0 THEN 0 ELSE poly[1] + x * Horner(Tail(poly), plen - 1, x)

RECURSIVE PolyRem(_, _)
\* _fmprb_poly_rem(r, a, al, b, bl): the remainder of a by the monic b, of
\* length bl - 1
PolyRem(a, b) ==
    IF Len(a) < Len(b) THEN Slice(a, 0, Len(b) - 1)
    ELSE LET c == a[Len(a)]
             s == Len(a) - Len(b)
         IN  PolyRem([i \in 1..(Len(a) - 1) |->
                         a[i] - (IF i > s THEN c * b[i - s] ELSE 0)], b)

\* if (al == 2)
UsesShortcut(al) == al = 2

\* _fmprb_poly_rem_2
_fmprb_poly_rem_2(a, al, b, bl) ==
    IF UsesShortcut(al) THEN <<a[1] - a[2] * b[1]>> ELSE PolyRem(a, b)

\* faulty variant: the height is taken one too large
StartHeight_bits(plen) == FLINT_BIT_COUNT(plen - 1)

\* height = FLINT_BIT_COUNT(plen - 1) - 1
StartHeight(plen) == FLINT_BIT_COUNT(plen - 1) - 1

RECURSIVE LowerTo(_, _)
\* while (height >= tree_height) height--
LowerTo(height, tree_height) ==
    IF height >= tree_height THEN LowerTo(height - 1, tree_height) ELSE height

InitialHeight(plen, len) == LowerTo(StartHeight(plen), FLINT_CLOG2(len))

\* faulty variant: the last block is taken as full
BlockLen_full(i, pow, len) == pow

\* tlen = ((i + pow) <= len) ? pow : len % pow
BlockLen(i, pow, len) == IF i + pow <= len THEN pow ELSE len % pow

\* faulty variant: the second child is read one coefficient too early
SecondChild_early(pa, pow) == pa + pow

\* pa + pow + 1
SecondChild(pa, pow) == pa + pow + 1

\* One call of a remainder routine, or one copy: the dividend is al words at
\* offset aoff of the source, the divisor bl words at offset boff of a tree
\* level, the result goes to offset roff of the destination.
RemCall(kind, roff, aoff, al, boff, bl) ==
    [kind |-> kind, roff |-> roff, rlen |-> bl - 1, aoff |-> aoff, al |-> al,
     boff |-> boff, bl |-> bl,
     shortcut |-> kind = "rem_2" /\ UsesShortcut(al)]

CopyCall(roff, aoff, n) ==
    [kind |-> "set", roff |-> roff, rlen |-> n, aoff |-> aoff, al |-> n,
     boff |-> 0, bl |-> 0, shortcut |-> FALSE]

RECURSIVE InitialCalls(_, _, _, _, _)
\* for (i = j = 0; i < len; i += pow, j += (pow + 1))
InitialCalls(i, j, pow, plen, len) ==
    IF i >= len THEN << >>
    ELSE <<RemCall("rem", i, 0, plen, j, BlockLen(i, pow, len) + 1)>>
         \o InitialCalls(i + pow, j + pow + 1, pow, plen, len)

RECURSIVE SweepCalls(_, _, _, _)
\* one pass of the loop over a level: pb and pc advance together
SweepCalls(pow, left, pa, pb) ==
    IF left >= 2 * pow
    THEN << RemCall("rem_2", pb, pb, 2 * pow, pa, pow + 1),
            RemCall("rem_2", pb + pow, pb, 2 * pow, SecondChild(pa, pow), pow + 1) >>
         \o SweepCalls(pow, left - 2 * pow, pa + 2 * pow + 2, pb + 2 * pow)
    ELSE IF left > pow
    THEN << RemCall("rem", pb, pb, left, pa, pow + 1),
            RemCall("rem", pb + pow, pb, left, SecondChild(pa, pow), left - pow + 1) >>
    ELSE IF left > 0
    THEN << CopyCall(pb, pb, left) >>
    ELSE << >>

\* the words a call writes
CallResult(c, src, level) ==
    LET a == Slice(src, c.aoff, c.al)
        b == Slice(level, c.boff, c.bl)
    IN  IF c.kind = "set" THEN a
        ELSE IF c.kind = "rem_2" THEN _fmprb_poly_rem_2(a, c.al, b, c.bl)
        ELSE PolyRem(a, b)

RECURSIVE RunCalls(_, _, _, _)
\* the destination after the calls have run in order
RunCalls(calls, src, level, dst) ==
    IF calls = << >> THEN dst
    ELSE LET c == Head(calls)
             r == CallResult(c, src, level)
         IN  RunCalls(Tail(calls), src, level,
                      [i \in 1..Len(dst) |->
                          IF i > c.roff /\ i <= c.roff + Len(r)
                          THEN r[i - c.roff] ELSE dst[i]])

\* _fmprb_vec_init(n)
ZeroVec(n) == [i \in 1..n |-> 0]

EvInputs ==
    UNION {{[poly |-> f, xs |-> q] : f \in SeqsOf(Coefs, m), q \in PointSeqs(n)} :
              m \in 0..MaxPlen, n \in 0..MaxLen}

\* _fmprb_poly_evaluate_vec_fast: the tree is built, then the evaluation runs
BuildTree ==
    /\ ev.pc = "build"
    /\ ev' = [ev EXCEPT !.pc = "start",
                        !.tree = _fmprb_poly_tree_build(ev.xs, ev.len)]
    /\ UNCHANGED <<mulVars, ccVars>>

\* if (len < 2 || plen < 2) { ... return; }
Degenerate ==
    /\ ev.pc = "start"
    /\ ev.len < 2 \/ ev.plen < 2
    /\ ev' = [ev EXCEPT
                !.pc = "done",
                !.vs = IF ev.len = 1
                       THEN << <<Horner(ev.poly, ev.plen, 0 - ev.tree[0][1])>> >>
                       ELSE IF ev.len # 0 /\ ev.plen = 0
                       THEN [i \in 1..ev.len |-> <<0>>]
                       ELSE IF ev.len # 0 /\ ev.plen = 1
                       THEN [i \in 1..ev.len |-> <<ev.poly[1]>>]
                       ELSE ev.vs]
    /\ UNCHANGED <<mulVars, ccVars>>

\* the initial reduction
InitialReduction ==
    /\ ev.pc = "start"
    /\ ~(ev.len < 2 \/ ev.plen < 2)
    /\ LET height == InitialHeight(ev.plen, ev.len)
           calls == InitialCalls(0, 0, Pow2(height), ev.plen, ev.len)
       IN  ev' = [ev EXCEPT
                    !.pc = "sweep",
                    !.height = height,
                    !.i = height - 1,
                    !.step = "initial",
                    !.calls = calls,
                    !.t = RunCalls(calls, ev.poly, ev.tree[height], ZeroVec(ev.len)),
                    !.u = ZeroVec(ev.len)]
    /\ UNCHANGED <<mulVars, ccVars>>

\* one pass of for (i = height - 1; i >= 0; i--), the swap included
SweepLevel ==
    /\ ev.pc = "sweep"
    /\ ev.i >= 0
    /\ LET calls == SweepCalls(Pow2(ev.i), ev.len, 0, 0)
       IN  ev' = [ev EXCEPT
                    !.i = ev.i - 1,
                    !.step = "level",
                    !.calls = calls,
                    !.t = RunCalls(calls, ev.t, ev.tree[ev.i], ev.u),
                    !.u = ev.t]
    /\ UNCHANGED <<mulVars, ccVars>>

\* _fmprb_vec_set(vs, t, len) and the return
Finish ==
    /\ ev.pc = "sweep"
    /\ ev.i < 0
    /\ ev' = [ev EXCEPT !.pc = "done", !.vs = [i \in 1..ev.len |-> <<ev.t[i]>>]]
    /\ UNCHANGED <<mulVars, ccVars>>

EvInit ==
    /\ \E in \in EvInputs :
          ev = [pc |-> "build", poly |-> in.poly, plen |-> Len(in.poly),
                xs |-> in.xs, len |-> Len(in.xs), tree |-> << >>,
                vs |-> [i \in 1..Len(in.xs) |-> << >>],
                t |-> << >>, u |-> << >>, height |-> 0, i |-> 0,
                step |-> "none", calls |-> << >>]
    /\ IdleMul
    /\ cached_prec = 0
    /\ cached_value = 0
    /\ cc_hist = << >>
    /\ cc_last = << >>

EvNext == BuildTree \/ Degenerate \/ InitialReduction \/ SweepLevel \/ Finish

SpecEval == EvInit /\ [][EvNext]_vars

General == ev.len >= 2 /\ ev.plen >= 2

\* C1: the evaluation writes exactly len results, and result i is the value
\* of the polynomial at point i as Horner's rule gives it; with no point
\* nothing is written, with an empty polynomial every result is zero, with a
\* constant polynomial every result is the constant.
C1_EvaluatesLikeHorner ==
    ev.pc = "done" =>
        /\ Len(ev.vs) = ev.len
        /\ \A i \in 1..ev.len : ev.vs[i] = <<Horner(ev.poly, ev.plen, ev.xs[i])>>
        /\ ev.len = 0 => ev.vs = << >>
        /\ ev.plen = 0 => \A i \in 1..ev.len : ev.vs[i] = <<0>>
        /\ ev.plen = 1 => \A i \in 1..ev.len : ev.vs[i] = <<ev.poly[1]>>

\* a run of the general case that split a short last block on its way
C1_Witness ==
    /\ ev.pc = "done"
    /\ ev.len = 7
    /\ ev.plen = 5
    /\ ev.height = 2
    /\ ev.step = "level"
    /\ \E i \in 1..ev.len : ev.vs[i] # <<0>>

\* C9 as stated: the level of the initial reduction has node degree 2^height
\* at least the degree plen - 1 of the polynomial.
C9_NodeDegreeAtLeastPolyDegree ==
    (General /\ ev.pc \in {"sweep", "done"}) => Pow2(ev.height) >= ev.plen - 1

\* C9 as amended: the level of the initial reduction is the highest level of
\* the tree whose node degree 2^height is at most the degree plen - 1 of the
\* polynomial: height = min(floor(log2(plen - 1)), ceil(log2(len)) - 1).
C9_NodeDegreeAtMostPolyDegree ==
    (General /\ ev.pc \in {"sweep", "done"}) =>
        /\ ev.height >= 0
        /\ Pow2(ev.height) <= ev.plen - 1
        /\ Pow2(ev.height) < ev.len
        /\ Pow2(ev.height + 1) > ev.plen - 1 \/ Pow2(ev.height + 1) >= ev.len

\* the polynomial has degree 3 and is first reduced by nodes of degree 2
C9_Witness ==
    /\ General
    /\ ev.pc = "sweep"
    /\ ev.step = "initial"
    /\ ev.plen = 4
    /\ ev.height = 1

\* C10: every remainder call of the initial reduction and of the sweep has
\* dividend length >= divisor length >= 2 and writes divisor length - 1 words
\* inside [0, len); at every level the blocks written, the copied one
\* included, are disjoint and cover [0, len); the shortcut is taken only for a
\* dividend of length 2 and a divisor of length 2, at the leaf level.
C10_RemainderCallsInBounds ==
    (General /\ ev.pc \in {"sweep", "done"}) =>
        /\ \A k \in 1..Len(ev.calls) :
              LET c == ev.calls[k]
              IN  /\ c.kind # "set" => c.al >= c.bl /\ c.bl >= 2 /\ c.rlen = c.bl - 1
                  /\ c.rlen >= 1
                  /\ c.roff >= 0 /\ c.roff + c.rlen <= ev.len
                  /\ c.shortcut => c.al = 2 /\ c.bl = 2 /\ ev.i = -1
        /\ \A p \in 0..(ev.len - 1) :
              Cardinality({k \in 1..Len(ev.calls) :
                              ev.calls[k].roff <= p
                              /\ p < ev.calls[k].roff + ev.calls[k].rlen}) = 1

\* a level with full pairs, a split last block behind them
C10_Witness ==
    /\ General
    /\ ev.step = "level"
    /\ \E k \in 1..Len(ev.calls) : ev.calls[k].kind = "rem_2"
    /\ \E k \in 1..Len(ev.calls) : ev.calls[k].kind = "rem" /\ ev.calls[k].bl < ev.calls[k].al
=============================================================================
